---- MODULE Spec2Model ----
(***************************************************************************)
(* Model of serve.py: the geocoding proxy with its per-IP sliding-window   *)
(* rate limiter (check_rate_limit), the request dispatch (do_GET) and the  *)
(* two upstream-call paths (handle_geocode, handle_geocode_reverse).       *)
(*                                                                         *)
(* Time is counted in ticks, Res ticks to the second, so that clock        *)
(* readings that are not a whole number of seconds exist in the model.     *)
(* The program's window (60 s), capacity (30) and address length (500)     *)
(* are scaled down to small values; every formula is written against the   *)
(* names, not the numbers.                                                 *)
(***************************************************************************)
EXTENDS Integers, Sequences, FiniteSets, TLC

\* ------------------------------------------------------------------ bounds
\* ticks per second
Res == 2
\* serve.py:27 sets 60 (seconds); scaled down
RATE_LIMIT_WINDOW == 1
\* serve.py:28 sets 30; scaled down
RATE_LIMIT_MAX_REQUESTS == 2
\* serve.py:156 and :162 use 500 (characters); scaled down
MAX_ADDRESS == 9
\* the clock stops advancing at this tick
MaxClock == 3
\* serve.py:91
MAX_PATH == 2000

\* connection workers: one thread per request (ThreadingMixIn)
Workers == {"w1", "w2"}
IPs == {"ip1", "ip2"}
NoWorker == "nobody"
NoHeader == "<none>"

\* the window in ticks
WindowTicks == RATE_LIMIT_WINDOW * Res

\* ------------------------------------------------------------- characters
\* Strings are sequences of one-character strings; "NUL" stands for a
\* control character (ord < 32 that is not tab, newline or return).
UpperLetters == {"A", "I", "L", "M", "S"}
LowerLetters == {"i", "l"}
Digits == {"0", "1", "2", "3", "4", "5", "6", "7", "8", "9"}
Whitespace == {" ", "TAB"}

Upper(c) == IF c = "i" THEN "I" ELSE IF c = "l" THEN "L" ELSE c

UpperStr(s) == [i \in 1..Len(s) |-> Upper(s[i])]

IsUpper(c) == c \in UpperLetters

IsLetter(c) == c \in UpperLetters \cup LowerLetters

IsDigit(c) == c \in Digits

IsSpace(c) == c \in Whitespace

\* line 47: ord(char) >= 32 or char in '\t\n\r'
Printable(c) == c # "NUL"

\* str.strip(): drop leading and trailing whitespace
RECURSIVE LStrip(_)
LStrip(s) == IF s # <<>> /\ IsSpace(Head(s)) THEN LStrip(Tail(s)) ELSE s

RECURSIVE RStrip(_)
RStrip(s) ==
    IF s # <<>> /\ IsSpace(s[Len(s)]) THEN RStrip(SubSeq(s, 1, Len(s) - 1)) ELSE s

Strip(s) == RStrip(LStrip(s))

\* text[:max_length]
Truncate(s, n) == IF Len(s) > n THEN SubSeq(s, 1, n) ELSE s

\* lines 42-50
sanitize_input(text, max_length) ==
    IF text = <<>> THEN <<>>
    ELSE Strip(Truncate(SelectSeq(text, Printable), max_length))

\* str.split(","): the pieces between commas
RECURSIVE Split(_)
Split(s) ==
    IF \A i \in 1..Len(s) : s[i] # ","
    THEN <<s>>
    ELSE LET k == CHOOSE i \in 1..Len(s) :
                      s[i] = "," /\ \A j \in 1..(i - 1) : s[j] # ","
         IN  <<SubSeq(s, 1, k - 1)>> \o Split(SubSeq(s, k + 1, Len(s)))

HasComma(s) == \E i \in 1..Len(s) : s[i] = ","

\* number of leading whitespace characters of s from position p on
RECURSIVE SpacesFrom(_, _)
SpacesFrom(s, p) ==
    IF p <= Len(s) /\ IsSpace(s[p]) THEN 1 + SpacesFrom(s, p + 1) ELSE 0

AllDigits(s, from, to) == to <= Len(s) /\ \A i \in from..to : IsDigit(s[i])

\* lines 199-201: re.match(r"([A-Z]{2})\s*(\d{5}(?:-\d{4})?)?", s)
\* the result: matched, and the two groups (<<>> for a group that did not
\* take part)
StateZipMatch(s) ==
    IF Len(s) >= 2 /\ IsUpper(s[1]) /\ IsUpper(s[2])
    THEN LET p == 3 + SpacesFrom(s, 3)
             zip5 == AllDigits(s, p, p + 4)
             zip9 == zip5 /\ p + 5 <= Len(s) /\ s[p + 5] = "-"
                          /\ AllDigits(s, p + 6, p + 9)
         IN  [matched |-> TRUE,
              g1 |-> SubSeq(s, 1, 2),
              g2 |-> IF zip9 THEN SubSeq(s, p, p + 9)
                     ELSE IF zip5 THEN SubSeq(s, p, p + 4)
                     ELSE <<>>]
    ELSE [matched |-> FALSE, g1 |-> <<>>, g2 |-> <<>>]

\* lines 212-214: re.match(r"([A-Za-z\s]+)\s+[A-Z]{2}", s); group 1 is
\* greedy, so it is the longest prefix after which the rest still matches
CityMatch(s) ==
    LET RestOk(n) ==
            \E j \in 1..Len(s) :
                /\ n + j + 2 <= Len(s)
                /\ \A i \in (n + 1)..(n + j) : IsSpace(s[i])
                /\ IsUpper(s[n + j + 1]) /\ IsUpper(s[n + j + 2])
        Ok(n) == /\ \A i \in 1..n : IsLetter(s[i]) \/ IsSpace(s[i])
                 /\ RestOk(n)
        Ns == {n \in 1..Len(s) : Ok(n)}
    IN  IF Ns = {} THEN [matched |-> FALSE, g1 |-> <<>>]
        ELSE [matched |-> TRUE,
              g1 |-> SubSeq(s, 1, CHOOSE n \in Ns : \A m \in Ns : m <= n)]

NoComponents ==
    [ok |-> FALSE, street |-> <<>>, city |-> <<>>, state |-> <<>>, zip |-> <<>>]

\* lines 189-216: the component parse of an address that contains a comma
ParseComponents(address) ==
    LET raw == Split(address)
        parts == [i \in 1..Len(raw) |-> Strip(raw[i])]
        n == Len(parts)
    IN  IF n < 2 THEN NoComponents
        ELSE LET street == parts[1]
                 city0 == IF n > 2 THEN parts[2] ELSE <<>>
                 state_zip == parts[n]
                 m == StateZipMatch(UpperStr(Strip(state_zip)))
                 cm == CityMatch(UpperStr(state_zip))
                 city == IF city0 = <<>> /\ n >= 3 THEN Strip(parts[n - 1])
                         ELSE IF city0 = <<>> /\ cm.matched THEN Strip(cm.g1)
                         ELSE city0
             IN  IF m.matched
                 THEN [ok |-> TRUE, street |-> street, city |-> city,
                       state |-> m.g1, zip |-> m.g2]
                 ELSE NoComponents


\* ------------------------------------------------------------ rate limiter
\* a timestamp exactly one window old is kept
Live_Inclusive(timestamp, now) == now - timestamp <= WindowTicks

\* line 60: the test that keeps a timestamp
Live(timestamp, now) == now - timestamp < WindowTicks

\* nothing is cleaned
Prune_KeepsAll(list, now) == list

\* lines 58-61: the list comprehension
Prune(list, now) == SelectSeq(list, LAMBDA timestamp : Live(timestamp, now))

\* line 64
AtLimit(list) == Len(list) >= RATE_LIMIT_MAX_REQUESTS

\* line 65: min()
Oldest(list) ==
    CHOOSE t \in {list[i] : i \in 1..Len(list)} :
        \A i \in 1..Len(list) : t <= list[i]

\* the request takes two slots
Recorded_Twice(list, now) == Append(Append(list, now), now)

\* line 70
Recorded(list, now) == Append(list, now)

\* int(): truncation toward zero of x ticks to whole seconds
IntSeconds(x) == IF x >= 0 THEN x \div Res ELSE -((-x) \div Res)

\* the hint without the added second
RetryAfter_NoMargin(now, oldest) == IntSeconds(WindowTicks - (now - oldest))

\* line 66: int(RATE_LIMIT_WINDOW - (current_time - oldest)) + 1
RetryAfter(now, oldest) == IntSeconds(WindowTicks - (now - oldest)) + 1

\* ------------------------------------------------------------------- CORS
PRODUCTION_ORIGIN == "https://ambay30.github.io"

\* line 33, the default allow-list
ALLOWED_ORIGINS ==
    {"https://ambay30.github.io", "http://localhost:8090", "http://127.0.0.1:8090"}

\* lines 35-40
get_cors_origin(request_origin) ==
    IF request_origin \in ALLOWED_ORIGINS THEN request_origin
    ELSE PRODUCTION_ORIGIN

\* the Origin headers requests carry: "" is an absent header (line 239)
Origins == {"", "http://localhost:8090", "https://evil.example"}

\* ------------------------------------------------------------------ paths
\* A request path: its leading text, whether anything follows it, and its
\* length in characters.
Paths ==
    {[head |-> "/health", rest |-> FALSE, len |-> 7],
     [head |-> "/health", rest |-> TRUE, len |-> 9],
     [head |-> "/index.html", rest |-> FALSE, len |-> 11],
     [head |-> "/api/geocode", rest |-> TRUE, len |-> MAX_PATH],
     [head |-> "/api/geocode", rest |-> TRUE, len |-> MAX_PATH + 1],
     [head |-> "/api/geocode-reverse", rest |-> TRUE, len |-> MAX_PATH],
     [head |-> "/api/geocode-reverse", rest |-> TRUE, len |-> MAX_PATH + 1]}

\* str.startswith on the modelled paths
StartsWith(p, prefix) ==
    \/ p.head = prefix
    \/ prefix = "/api/geocode" /\ p.head = "/api/geocode-reverse"

\* a path of exactly MAX_PATH characters is refused too
TooLong_Inclusive(p) == p.len >= MAX_PATH

\* line 91
TooLong(p) == p.len > MAX_PATH

\* /health goes through the rate limiter like the API routes
Route_HealthLimited(p) ==
    IF TooLong(p) THEN "414"
    ELSE IF StartsWith(p, "/api/geocode-reverse") THEN "reverse"
    ELSE IF StartsWith(p, "/api/geocode") \/ p.head = "/health" THEN "geocode"
    ELSE "static"

\* lines 91-142: the branch of do_GET a path takes
Route(p) ==
    IF TooLong(p) THEN "414"
    ELSE IF p.head = "/health" /\ ~p.rest THEN "health"
    ELSE IF StartsWith(p, "/api/geocode-reverse") THEN "reverse"
    ELSE IF StartsWith(p, "/api/geocode") THEN "geocode"
    ELSE "static"

NoPath == [head |-> "", rest |-> FALSE, len |-> 0]

\* ------------------------------------------------------- upstream service
\* What one upstream exchange (urlopen, read, json.loads and, in
\* handle_geocode, the .get chain) can come to.  A success carries the
\* shape of the JSON value; a failure carries its cause.
\*   non2xx        the service answered with an error status
\*   refused       no connection (refused, DNS, timeout while connecting)
\*   read_timeout  connected, but no answer within the 15 s timeout
\*   bad_json      the body is not JSON
UpstreamCodes == {404, 503}

\* the text an exception carries (the reason phrase of an error status, the
\* reason of a URLError, the message of a decoding error)
Messages == {"reason one", "reason two"}

Outcomes ==
    [cause : {"ok"}, shape : {"matches", "empty", "array"}, code : {200}, msg : {""}]
    \cup [cause : {"non2xx"}, shape : {"none"}, code : UpstreamCodes, msg : Messages]
    \cup [cause : {"refused", "read_timeout", "bad_json"}, shape : {"none"},
          code : {0}, msg : Messages]

\* The exception an exchange raises in the handler ("none": it returns).
\* urlopen wraps failures of connecting and sending in URLError; a timeout
\* while waiting for or reading the answer surfaces as TimeoutError; a JSON
\* array has no .get (line 184, handle_geocode only).
Raised(out, handler) ==
    CASE out.cause = "non2xx" -> "HTTPError"
      [] out.cause = "refused" -> "URLError"
      [] out.cause = "read_timeout" -> "TimeoutError"
      [] out.cause = "bad_json" -> "JSONDecodeError"
      [] out.cause = "ok" /\ out.shape = "array" /\ handler = "geocode" -> "AttributeError"
      [] OTHER -> "none"

\* the classes an exception is an instance of
Bases(exc) ==
    CASE exc = "HTTPError" -> {"HTTPError", "URLError", "OSError", "Exception"}
      [] exc = "URLError" -> {"URLError", "OSError", "Exception"}
      [] exc = "TimeoutError" -> {"TimeoutError", "OSError", "Exception"}
      [] exc = "JSONDecodeError" -> {"JSONDecodeError", "ValueError", "Exception"}
      [] exc = "AttributeError" -> {"AttributeError", "Exception"}
      [] OTHER -> {}

\* lines 244-278 and 332-366: the status the except clauses send
ErrorStatus(exc, code) ==
    IF "HTTPError" \in Bases(exc) THEN code
    ELSE IF "URLError" \in Bases(exc) THEN 502
    ELSE 500

\* line 184: not matches
NoMatches(out) == out.shape # "matches"


\* ----------------------------------------------------------------- inputs
\* query-string values of the address parameter (<<>>: no parameter)
LongAddress == [i \in 1..(MAX_ADDRESS + 1) |-> "A"]

Addresses ==
    {<<>>,
     <<"NUL", " ">>,
     <<"1", " ", "M">>,
     <<"1", " ", "M", ",", "I", "L">>,
     <<"M", ",", " ", "i", "l", " ">>,
     <<"M", ",", "S", ",", "I", "L", "6">>,
     <<"1", " ", "M", ",", " ", "6", "2">>,
     <<"M", ",", "I", "L", "6", "2", "7", "0", "4">>,
     <<"M", ",", "S", "A", " ", "I", "L">>,
     LongAddress}

\* query-string values of lat and lng (<<>>: no parameter)
Lats == {<<>>, <<"A">>, <<"4", "5">>, <<"9", "1">>}

Lngs == {<<>>, <<"A">>, <<"4", "5">>, <<"2", "0", "0">>}

NoParams == [address |-> <<>>, lat |-> <<>>, lng |-> <<>>]

DigitValue(c) ==
    CASE c = "0" -> 0 [] c = "1" -> 1 [] c = "2" -> 2 [] c = "3" -> 3
      [] c = "4" -> 4 [] c = "5" -> 5 [] c = "6" -> 6 [] c = "7" -> 7
      [] c = "8" -> 8 [] c = "9" -> 9

RECURSIVE Decimal(_)
Decimal(s) ==
    IF s = <<>> THEN 0
    ELSE 10 * Decimal(SubSeq(s, 1, Len(s) - 1)) + DigitValue(s[Len(s)])

\* lines 295-296: float() of the modelled texts, which are unsigned
\* integers or not numbers at all (ok = FALSE: ValueError)
Float(s) ==
    IF s # <<>> /\ \A i \in 1..Len(s) : IsDigit(s[i])
    THEN [ok |-> TRUE, value |-> Decimal(s)]
    ELSE [ok |-> FALSE, value |-> 0]

\* ------------------------------------------------------------------ state
VARIABLES
    clock,            \* time.time(), in ticks
    PORT_set,         \* os.environ.get('PORT'): deployed mode
    rate_limit_data,  \* line 29: per IP, the list of timestamps
    rate_limit_lock,  \* line 30: the worker holding the lock, or NoWorker
    pc,               \* where each worker is in do_GET
    path,             \* the request's path
    client_ip,        \* line 96
    origin,           \* the request's Origin header
    current_time,     \* line 54
    allowed,          \* lines 109/124: "none" until the check returns
    retry_after,      \* lines 109/124
    params,           \* lines 148/285: the query parameters, once parsed
    address,          \* line 156: the sanitized address
    calls,            \* the upstream exchanges of the request, in order
    resp,             \* the response written so far
    checks,           \* how often the request called check_rate_limit
    before,           \* the IP's list when the request took the lock
    admits,           \* per IP, the instants at which checks were admitted
                      \* during the trailing window
    hint              \* per IP, the tick from which the retry_after of the
                      \* latest check, a rejected one, says to try again

vars ==
    <<clock, PORT_set, rate_limit_data, rate_limit_lock, pc, path, client_ip,
      origin, current_time, allowed, retry_after, params, address, calls, resp,
      checks, before, admits, hint>>

limiter == <<rate_limit_data, rate_limit_lock, admits, hint>>

NoHint == -1

NoJson == [src |-> "none", shape |-> "none"]

\* a response: the status lines started (send_response, which also logs
\* them), the Access-Control-Allow-Origin and Retry-After headers, the kind
\* of body and, for a passed-through body, the JSON value; whether the
\* client received it, and the exception that left do_GET
NoResp ==
    [statuses |-> <<>>, cors |-> NoHeader, retry |-> <<>>, body |-> "none",
     json |-> NoJson, delivered |-> FALSE, escaped |-> "none"]

Init ==
    /\ clock = 0
    /\ PORT_set \in BOOLEAN
    /\ rate_limit_data = [ip \in IPs |-> <<>>]
    /\ rate_limit_lock = NoWorker
    /\ pc = [w \in Workers |-> "idle"]
    /\ path = [w \in Workers |-> NoPath]
    /\ client_ip = [w \in Workers |-> "none"]
    /\ origin = [w \in Workers |-> ""]
    /\ current_time = [w \in Workers |-> 0]
    /\ allowed = [w \in Workers |-> "none"]
    /\ retry_after = [w \in Workers |-> 0]
    /\ params = [w \in Workers |-> NoParams]
    /\ address = [w \in Workers |-> <<>>]
    /\ calls = [w \in Workers |-> <<>>]
    /\ resp = [w \in Workers |-> NoResp]
    /\ checks = [w \in Workers |-> 0]
    /\ before = [w \in Workers |-> <<>>]
    /\ admits = [ip \in IPs |-> <<>>]
    /\ hint = [ip \in IPs |-> NoHint]


\* ---------------------------------------------------------------- helpers
\* a response without CORS and Retry-After headers (send_error, and the
\* send_response sequences of lines 247-252, 259-264, 270-275)
Plain(status, body) ==
    [statuses |-> <<status>>, cors |-> NoHeader, retry |-> <<>>, body |-> body,
     json |-> NoJson, delivered |-> FALSE, escaped |-> "none"]

\* lines 111-118
TooMany(retry) ==
    [statuses |-> <<429>>, cors |-> NoHeader, retry |-> <<retry>>,
     body |-> "Rate limit exceeded", json |-> NoJson, delivered |-> FALSE,
     escaped |-> "none"]

\* lines 237-242 and 325-330
Success(request_origin, json) ==
    [statuses |-> <<200>>, cors |-> get_cors_origin(request_origin),
     retry |-> <<>>, body |-> "json", json |-> json, delivered |-> FALSE,
     escaped |-> "none"]

\* str(e): the text of the exception; the AttributeError of line 184 has
\* the interpreter's text, the others carry the text of the failure
Str(exc, msg) ==
    IF exc = "AttributeError" THEN "'list' object has no attribute 'get'" ELSE msg

\* lines 251, 263, 274: the message of an error body
ErrorBody(exc, msg) ==
    IF ~PORT_set THEN Str(exc, msg)
    ELSE IF "HTTPError" \in Bases(exc) THEN "Geocoding service error"
    ELSE IF "URLError" \in Bases(exc) THEN "Geocoding service unavailable"
    ELSE "Internal server error"

\* the lock is not honoured
LockFree_Ignored == TRUE

\* line 56: the lock can be taken
LockFree == rate_limit_lock = NoWorker

\* the handler of the worker's request
Handler(w) == Route(path[w])

\* what the client does while the response is written: it stays connected,
\* or it is gone and the write to the socket raises the named exception
ClientFates == {"connected", "BrokenPipeError", "ConnectionResetError"}

\* What becomes of a response written at one of three kinds of place:
\*   "do_GET"  outside any try block (lines 92, 100-103, 111-118, 126-133,
\*             140): the exception of a failed write leaves do_GET
\*   "try"     inside the try block of a handler (lines 152-163, 237-242,
\*             290-304, 325-330): the exception is an OSError, neither
\*             HTTPError nor URLError, so except Exception (lines 268, 356)
\*             starts a 500 response, whose own failing write is swallowed
\*   "except"  inside an except clause (lines 246-255, 258-267, 269-278):
\*             the exception is swallowed
Sent(response, site, fate) ==
    IF fate = "connected" THEN [response EXCEPT !.delivered = TRUE]
    ELSE IF site = "do_GET" THEN [response EXCEPT !.escaped = fate]
    ELSE IF site = "try" THEN [response EXCEPT !.statuses = @ \o <<500>>]
    ELSE response

Finished(w, response) ==
    /\ resp' = [resp EXCEPT ![w] = response]
    /\ pc' = [pc EXCEPT ![w] = "done"]

\* ---------------------------------------------------------------- actions
\* lines 89-142: a worker takes a request and dispatches it; for the two
\* API routes it enters check_rate_limit and reads the clock (line 54)
do_GET(w, paths, ips, origins, fates) ==
    /\ pc[w] = "idle"
    /\ \E p \in paths, ip \in ips, o \in origins, fate \in fates :
        /\ path' = [path EXCEPT ![w] = p]
        /\ client_ip' = [client_ip EXCEPT ![w] = ip]
        /\ origin' = [origin EXCEPT ![w] = o]
        /\ CASE Route(p) = "414" ->
                  /\ Finished(w, Sent(Plain(414, "Request-URI Too Long"), "do_GET", fate))
                  /\ UNCHANGED <<current_time, checks>>
             [] Route(p) = "health" ->
                  /\ Finished(w, Sent(Plain(200, "health"), "do_GET", fate))
                  /\ UNCHANGED <<current_time, checks>>
             [] Route(p) = "static" ->
                  /\ Finished(w, Sent(IF PORT_set THEN Plain(404, "Not Found")
                                      ELSE Plain(200, "static file"),
                                      "do_GET", fate))
                  /\ UNCHANGED <<current_time, checks>>
             [] OTHER ->
                  /\ fate = "connected"
                  /\ checks' = [checks EXCEPT ![w] = @ + 1]
                  /\ current_time' = [current_time EXCEPT ![w] = clock]
                  /\ pc' = [pc EXCEPT ![w] = "rl_lock"]
                  /\ UNCHANGED resp
    /\ UNCHANGED <<clock, PORT_set, limiter, allowed, retry_after, params,
                   address, calls, before>>

\* line 56: with rate_limit_lock
AcquireLock(w) ==
    /\ pc[w] = "rl_lock"
    /\ LockFree
    /\ rate_limit_lock' = w
    /\ before' = [before EXCEPT ![w] = rate_limit_data[client_ip[w]]]
    /\ pc' = [pc EXCEPT ![w] = "rl_prune"]
    /\ UNCHANGED <<clock, PORT_set, rate_limit_data, admits, hint, path, client_ip,
                   origin, current_time, allowed, retry_after, params, address,
                   calls, resp, checks>>

\* lines 58-61
PruneOld(w) ==
    /\ pc[w] = "rl_prune"
    /\ rate_limit_data' =
           [rate_limit_data EXCEPT ![client_ip[w]] = Prune(@, current_time[w])]
    /\ pc' = [pc EXCEPT ![w] = "rl_check"]
    /\ UNCHANGED <<clock, PORT_set, rate_limit_lock, admits, hint, path, client_ip,
                   origin, current_time, allowed, retry_after, params, address,
                   calls, resp, checks, before>>

\* the lock stays with the worker when check_rate_limit returns
LeaveCheck_KeepsLock(w) ==
    /\ rate_limit_lock' = rate_limit_lock
    /\ current_time' = [current_time EXCEPT ![w] = 0]
    /\ before' = [before EXCEPT ![w] = <<>>]

\* the with block is left: the lock is released and the locals of
\* check_rate_limit are gone
LeaveCheck(w) ==
    /\ rate_limit_lock' = IF rate_limit_lock = w THEN NoWorker ELSE rate_limit_lock
    /\ current_time' = [current_time EXCEPT ![w] = 0]
    /\ before' = [before EXCEPT ![w] = <<>>]

\* the tick from which a rejection at tick now with the hint of retry
\* seconds says to try again; a tick the clock never reaches is not kept
Deadline(now, retry) ==
    IF now + retry * Res <= MaxClock THEN now + retry * Res ELSE NoHint

\* lines 64-67: at the limit the check returns (False, retry_after).
\* The hint of the rejection is recorded only when observed.
CheckLimit(w, observed) ==
    /\ pc[w] = "rl_check"
    /\ LET list == rate_limit_data[client_ip[w]]
           retry == RetryAfter(current_time[w], Oldest(list))
       IN
        IF AtLimit(list)
        THEN /\ allowed' = [allowed EXCEPT ![w] = "False"]
             /\ retry_after' = [retry_after EXCEPT ![w] = retry]
             /\ hint' = IF observed
                        THEN [hint EXCEPT ![client_ip[w]] =
                                  Deadline(current_time[w], retry)]
                        ELSE hint
             /\ pc' = [pc EXCEPT ![w] = "send_429"]
             /\ LeaveCheck(w)
        ELSE /\ pc' = [pc EXCEPT ![w] = "rl_append"]
             /\ UNCHANGED <<allowed, retry_after, rate_limit_lock, current_time,
                            before, hint>>
    /\ UNCHANGED <<clock, PORT_set, rate_limit_data, admits, path, client_ip, origin,
                   params, address, calls, resp, checks>>

\* lines 70-71: the request is recorded and the check returns (True, 0).
\* The instant of the admission is recorded only when observed.
RecordRequest(w, observed) ==
    /\ pc[w] = "rl_append"
    /\ rate_limit_data' =
           [rate_limit_data EXCEPT ![client_ip[w]] = Recorded(@, current_time[w])]
    /\ allowed' = [allowed EXCEPT ![w] = "True"]
    /\ retry_after' = [retry_after EXCEPT ![w] = 0]
    /\ admits' = IF observed THEN [admits EXCEPT ![client_ip[w]] = Append(@, clock)]
                 ELSE admits
    /\ hint' = [hint EXCEPT ![client_ip[w]] = NoHint]
    /\ pc' = [pc EXCEPT ![w] = "handle"]
    /\ LeaveCheck(w)
    /\ UNCHANGED <<clock, PORT_set, path, client_ip, origin, params, address,
                   calls, resp, checks>>

\* lines 110-119 and 125-134
Send429(w, fates) ==
    /\ pc[w] = "send_429"
    /\ \E fate \in fates : Finished(w, Sent(TooMany(retry_after[w]), "do_GET", fate))
    /\ UNCHANGED <<clock, PORT_set, limiter, path, client_ip, origin, current_time,
                   allowed, retry_after, params, address, calls, checks, before>>

\* lines 146-164: handle_geocode up to the upstream call
ValidateAddress(w, addresses, fates) ==
    /\ pc[w] = "handle"
    /\ Handler(w) = "geocode"
    /\ \E raw \in addresses, fate \in fates :
        LET a == sanitize_input(raw, MAX_ADDRESS)
            send_error(status, message) ==
                Finished(w, Sent(Plain(status, message), "try", fate))
        IN
        /\ params' = [params EXCEPT ![w].address = raw]
        /\ IF raw = <<>>
           THEN /\ send_error(400, "Missing address parameter")
                /\ UNCHANGED address
           ELSE IF a = <<>>
           THEN /\ send_error(400, "Invalid address parameter")
                /\ address' = [address EXCEPT ![w] = a]
           ELSE IF Len(a) > MAX_ADDRESS
           THEN /\ send_error(400, "Address too long")
                /\ address' = [address EXCEPT ![w] = a]
           ELSE /\ fate = "connected"
                /\ address' = [address EXCEPT ![w] = a]
                /\ pc' = [pc EXCEPT ![w] = "urlopen"]
                /\ UNCHANGED resp
    /\ UNCHANGED <<clock, PORT_set, limiter, path, client_ip, origin, current_time,
                   allowed, retry_after, calls, checks, before>>

\* every latitude up to 180 is accepted
LatInRange_Wide(v) == -180 <= v /\ v <= 180

\* line 297
LatInRange(v) == -90 <= v /\ v <= 90

\* line 300
LngInRange(v) == -180 <= v /\ v <= 180

\* lines 284-305: handle_geocode_reverse up to the upstream call
ValidateCoordinates(w, lats, lngs, fates) ==
    /\ pc[w] = "handle"
    /\ Handler(w) = "reverse"
    /\ \E rawlat \in lats, rawlng \in lngs, fate \in fates :
        LET lat == sanitize_input(rawlat, 20)
            lng == sanitize_input(rawlng, 20)
            lat_float == Float(lat)
            lng_float == Float(lng)
            send_error(status, message) ==
                Finished(w, Sent(Plain(status, message), "try", fate))
        IN
        /\ params' = [params EXCEPT ![w].lat = rawlat, ![w].lng = rawlng]
        /\ IF lat = <<>> \/ lng = <<>>
           THEN send_error(400, "Missing lat or lng parameter")
           ELSE IF ~lat_float.ok \/ ~lng_float.ok
           THEN send_error(400, "Invalid coordinate format")
           ELSE IF ~LatInRange(lat_float.value)
           THEN send_error(400, "Latitude must be between -90 and 90")
           ELSE IF ~LngInRange(lng_float.value)
           THEN send_error(400, "Longitude must be between -180 and 180")
           ELSE /\ fate = "connected"
                /\ pc' = [pc EXCEPT ![w] = "urlopen"]
                /\ UNCHANGED resp
    /\ UNCHANGED <<clock, PORT_set, limiter, path, client_ip, origin, current_time,
                   allowed, retry_after, address, calls, checks, before>>


\* an entry of calls: the upstream endpoint asked, how the exchange ended,
\* and for the component endpoint the parsed components
Call(endpoint, out, components) ==
    [endpoint |-> endpoint, cause |-> out.cause, code |-> out.code,
     shape |-> out.shape, msg |-> out.msg, components |-> components]

\* the fallback is tried whatever the first answer matched
Fallback_IgnoresMatches(out, addr) == HasComma(addr) /\ ParseComponents(addr).ok

\* lines 186-216: the fallback is tried
Fallback(out, addr) ==
    NoMatches(out) /\ HasComma(addr) /\ ParseComponents(addr).ok

\* a failed one-line exchange is followed by a try at the component endpoint
Disposition_RetryOnError(exc, out, handler, addr) ==
    IF exc # "none" /\ handler = "geocode" /\ HasComma(addr) /\ ParseComponents(addr).ok
    THEN "fallback"
    ELSE IF exc # "none" THEN "error"
    ELSE IF handler = "geocode" /\ Fallback(out, addr) THEN "fallback"
    ELSE "success"

\* lines 179-244 and 321-332: how the handler goes on after an exchange:
\* an exception leaves the try block for an except clause, an empty match
\* list of a parseable address leads to the component endpoint, anything
\* else to the 200 response
Disposition(exc, out, handler, addr) ==
    IF exc # "none" THEN "error"
    ELSE IF handler = "geocode" /\ Fallback(out, addr) THEN "fallback"
    ELSE "success"

\* lines 179-184 and 237-278 (handle_geocode), 321-366
\* (handle_geocode_reverse): the first upstream exchange and what follows it
Urlopen(w, outcomes, fates) ==
    /\ pc[w] = "urlopen"
    /\ \E out \in outcomes, fate \in fates :
        LET exc == Raised(out, Handler(w))
            endpoint == IF Handler(w) = "geocode" THEN "onelineaddress"
                        ELSE "coordinates"
        IN
        /\ calls' = [calls EXCEPT ![w] = Append(@, Call(endpoint, out, NoComponents))]
        /\ CASE Disposition(exc, out, Handler(w), address[w]) = "error" ->
                  Finished(w, Sent(Plain(ErrorStatus(exc, out.code),
                                         ErrorBody(exc, out.msg)), "except", fate))
             [] Disposition(exc, out, Handler(w), address[w]) = "fallback" ->
                  /\ fate = "connected"
                  /\ pc' = [pc EXCEPT ![w] = "urlopen2"]
                  /\ UNCHANGED resp
             [] OTHER ->
                  Finished(w, Sent(Success(origin[w], [src |-> endpoint,
                                                       shape |-> out.shape]),
                                   "try", fate))
    /\ UNCHANGED <<clock, PORT_set, limiter, path, client_ip, origin, current_time,
                   allowed, retry_after, params, address, checks, before>>

\* lines 218-242 and 244-278: the component exchange of handle_geocode
Urlopen2(w, outcomes, fates) ==
    /\ pc[w] = "urlopen2"
    /\ \E out \in outcomes, fate \in fates :
        \* line 235 only parses the body: nothing is looked up in it
        LET exc == Raised(out, "component") IN
        /\ calls' = [calls EXCEPT ![w] =
                         Append(@, Call("address", out, ParseComponents(address[w])))]
        /\ IF exc # "none"
           THEN Finished(w, Sent(Plain(ErrorStatus(exc, out.code),
                                       ErrorBody(exc, out.msg)), "except", fate))
           ELSE Finished(w, Sent(Success(origin[w], [src |-> "address",
                                                     shape |-> out.shape]),
                                 "try", fate))
    /\ UNCHANGED <<clock, PORT_set, limiter, path, client_ip, origin, current_time,
                   allowed, retry_after, params, address, checks, before>>

\* the request is over: the worker thread ends, its locals are gone
Finish(w) ==
    /\ pc[w] = "done"
    /\ pc' = [pc EXCEPT ![w] = "idle"]
    /\ path' = [path EXCEPT ![w] = NoPath]
    /\ client_ip' = [client_ip EXCEPT ![w] = "none"]
    /\ origin' = [origin EXCEPT ![w] = ""]
    /\ current_time' = [current_time EXCEPT ![w] = 0]
    /\ allowed' = [allowed EXCEPT ![w] = "none"]
    /\ retry_after' = [retry_after EXCEPT ![w] = 0]
    /\ params' = [params EXCEPT ![w] = NoParams]
    /\ address' = [address EXCEPT ![w] = <<>>]
    /\ calls' = [calls EXCEPT ![w] = <<>>]
    /\ resp' = [resp EXCEPT ![w] = NoResp]
    /\ checks' = [checks EXCEPT ![w] = 0]
    /\ before' = [before EXCEPT ![w] = <<>>]
    /\ UNCHANGED <<clock, PORT_set, limiter>>

\* time passes; admissions that left the trailing window are forgotten
Tick ==
    /\ clock < MaxClock
    /\ clock' = clock + 1
    /\ admits' = [ip \in IPs |->
                     SelectSeq(admits[ip], LAMBDA t : t > clock + 1 - WindowTicks)]
    /\ UNCHANGED <<PORT_set, rate_limit_data, rate_limit_lock, hint, pc, path,
                   client_ip, origin, current_time, allowed, retry_after, params,
                   address, calls, resp, checks, before>>

\* One connection at a time, with every modelled input.
Next ==
    \/ Tick
    \/ do_GET("w1", Paths, {"ip1"}, Origins, ClientFates)
    \/ AcquireLock("w1")
    \/ PruneOld("w1")
    \/ CheckLimit("w1", TRUE)
    \/ RecordRequest("w1", TRUE)
    \/ Send429("w1", ClientFates)
    \/ ValidateAddress("w1", Addresses, ClientFates)
    \/ ValidateCoordinates("w1", Lats, Lngs, ClientFates)
    \/ Urlopen("w1", Outcomes, ClientFates)
    \/ Urlopen2("w1", Outcomes, ClientFates)
    \/ Finish("w1")

Spec == Init /\ [][Next]_vars

\* Concurrent connections, all asking /api/geocode for an address that the
\* upstream service matches, from clients that stay connected.
ConcurrentPaths == {[head |-> "/api/geocode", rest |-> TRUE, len |-> MAX_PATH]}

ConcurrentOutcomes == {[cause |-> "ok", shape |-> "matches", code |-> 200, msg |-> ""]}

\* the first worker's client has one address, the second's either
ConcurrentIPs(w) == IF w = "w1" THEN {"ip1"} ELSE IPs

NextConcurrent ==
    \/ Tick
    \/ \E w \in Workers : do_GET(w, ConcurrentPaths, ConcurrentIPs(w), {""}, {"connected"})
    \/ \E w \in Workers : AcquireLock(w)
    \/ \E w \in Workers : PruneOld(w)
    \/ \E w \in Workers : CheckLimit(w, FALSE)
    \/ \E w \in Workers : RecordRequest(w, FALSE)
    \/ \E w \in Workers : Send429(w, {"connected"})
    \/ \E w \in Workers : ValidateAddress(w, {<<"1", " ", "M">>}, {"connected"})
    \/ \E w \in Workers : Urlopen(w, ConcurrentOutcomes, {"connected"})
    \/ \E w \in Workers : Finish(w)

SpecConcurrent == Init /\ [][NextConcurrent]_vars

\* The same connections, with the instants of admission recorded.
NextObserved ==
    \/ Tick
    \/ \E w \in Workers : do_GET(w, ConcurrentPaths, ConcurrentIPs(w), {""}, {"connected"})
    \/ \E w \in Workers : AcquireLock(w)
    \/ \E w \in Workers : PruneOld(w)
    \/ \E w \in Workers : CheckLimit(w, TRUE)
    \/ \E w \in Workers : RecordRequest(w, TRUE)
    \/ \E w \in Workers : Send429(w, {"connected"})
    \/ \E w \in Workers : ValidateAddress(w, {<<"1", " ", "M">>}, {"connected"})
    \/ \E w \in Workers : Urlopen(w, ConcurrentOutcomes, {"connected"})
    \/ \E w \in Workers : Finish(w)

SpecObserved == Init /\ [][NextObserved]_vars

\* ------------------------------------------------------------- properties
\* a check of worker w returns in this step
Returns(w) ==
    pc[w] \in {"rl_check", "rl_append"} /\ pc'[w] \in {"send_429", "handle"}

\* the number of timestamps of list that are less than a window older than now
Within(list, now) ==
    Cardinality({i \in 1..Len(list) : now - list[i] < WindowTicks})

\* C1: a check that finds RATE_LIMIT_MAX_REQUESTS admitted timestamps of its
\* key inside the window that holds its own clock reading returns Rejected;
\* a check whose clock reading is a window or more past the oldest admitted
\* timestamp of its key returns Admitted.
C1_FullWindowRejectsExpiredAdmits ==
    [][\A w \in Workers :
          Returns(w) =>
              /\ Within(before[w], current_time[w]) >= RATE_LIMIT_MAX_REQUESTS
                     => allowed'[w] = "False"
              /\ (/\ before[w] # <<>>
                  /\ \E i \in 1..Len(before[w]) :
                         current_time[w] - before[w][i] >= WindowTicks)
                     => allowed'[w] = "True"]_vars

\* C1 witness: one worker has been rejected while another, whose clock
\* reading is past the window of a full list, has pruned, has passed the
\* limit test and is recording its request.
C1_Witness ==
    \E w1, w2 \in Workers :
        /\ w1 # w2
        /\ allowed[w1] = "False"
        /\ pc[w2] = "rl_append"
        /\ Len(before[w2]) = RATE_LIMIT_MAX_REQUESTS
        /\ \A i \in 1..Len(before[w2]) :
               current_time[w2] - before[w2][i] >= WindowTicks
        /\ rate_limit_data[client_ip[w2]] = <<>>

\* C2: in every trailing window ending at the present instant, at most
\* RATE_LIMIT_MAX_REQUESTS checks of a key were admitted.
C2_AtMostMaxAdmittedPerWindow ==
    \A ip \in IPs :
        Cardinality({i \in 1..Len(admits[ip]) :
                        admits[ip][i] > clock - WindowTicks})
            <= RATE_LIMIT_MAX_REQUESTS

\* C3: a rejection carries a retry_after between 1 and RATE_LIMIT_WINDOW + 1.
C3_RetryAfterInRange ==
    \A w \in Workers :
        allowed[w] = "False" =>
            1 <= retry_after[w] /\ retry_after[w] <= RATE_LIMIT_WINDOW + 1

ApiPath(w) == path[w].head \in {"/api/geocode", "/api/geocode-reverse"}

\* what C5 says of one request
RateLimitedFirst(w) ==
    /\ checks[w] = 1
    /\ allowed[w] = "none" =>
           resp[w] = NoResp /\ calls[w] = <<>> /\ params[w] = NoParams
    /\ allowed[w] = "False" =>
           /\ calls[w] = <<>> /\ params[w] = NoParams
           /\ IF pc[w] = "done"
              THEN /\ resp[w].statuses = <<429>>
                   /\ resp[w].retry = <<retry_after[w]>>
              ELSE resp[w] = NoResp
    /\ calls[w] # <<>> => allowed[w] = "True"

\* C5 as stated: every request whose path starts with /api/geocode calls
\* check_rate_limit exactly once before anything else; a rejection is
\* answered 429 with the returned retry_after and without an upstream
\* call; an upstream call follows only the request's own admission.
C5_EveryApiRequestIsChecked ==
    \A w \in Workers : pc[w] # "idle" /\ ApiPath(w) => RateLimitedFirst(w)

\* C5 amended: the same, for the requests whose path is at most MAX_PATH
\* characters long.
C5_ApiRequestWithinPathLimitIsChecked ==
    \A w \in Workers :
        pc[w] # "idle" /\ ApiPath(w) /\ path[w].len <= MAX_PATH
            => RateLimitedFirst(w)

\* C5 witness: a request on an API route of exactly MAX_PATH characters was
\* rejected and answered 429.
C5_Witness ==
    \E w \in Workers :
        /\ pc[w] = "done" /\ ApiPath(w) /\ path[w].len = MAX_PATH
        /\ allowed[w] = "False"
        /\ resp[w].statuses = <<429>>
        /\ resp[w].retry = <<retry_after[w]>>

\* C6: every response to a request on an API route carries the
\* Access-Control-Allow-Origin header: the request's Origin when it is
\* allow-listed, the production origin otherwise.
C6_CorsOnEveryApiResponse ==
    \A w \in Workers :
        pc[w] = "done" /\ ApiPath(w) /\ path[w].len <= MAX_PATH =>
            resp[w].cors = IF origin[w] \in ALLOWED_ORIGINS THEN origin[w]
                           ELSE PRODUCTION_ORIGIN

\* the last upstream exchange of the request
LastCall(w) == calls[w][Len(calls[w])]

\* C7: a failed upstream exchange is answered with the upstream's status
\* when the upstream answered non-2xx, with 502 when the network failed
\* (no connection, or no answer in time), and with 500 otherwise.
C7_FailureStatusByKind ==
    \A w \in Workers :
        pc[w] = "done" /\ calls[w] # <<>> /\ LastCall(w).cause # "ok" =>
            resp[w].statuses =
                <<CASE LastCall(w).cause = "non2xx" -> LastCall(w).code
                    [] LastCall(w).cause \in {"refused", "read_timeout"} -> 502
                    [] OTHER -> 500>>

\* the exchange ended in an exception in the handler
Failed(call) ==
    \/ call.cause # "ok"
    \/ call.endpoint = "onelineaddress" /\ call.shape = "array"

\* C8: no upstream endpoint is asked twice within a request (at most two
\* exchanges for /api/geocode, one for /api/geocode-reverse); no exchange
\* follows a failed one; and a request whose last exchange failed is
\* answered with a single error response, not with a 200.
C8_NoRetry ==
    \A w \in Workers :
        /\ Len(calls[w]) <= (IF path[w].head = "/api/geocode" THEN 2 ELSE 1)
        /\ \A i, j \in 1..Len(calls[w]) :
               i # j => calls[w][i].endpoint # calls[w][j].endpoint
        /\ \A i \in 1..(Len(calls[w]) - 1) : ~Failed(calls[w][i])
        /\ pc[w] = "done" /\ calls[w] # <<>> /\ Failed(LastCall(w)) =>
               /\ Len(resp[w].statuses) = 1
               /\ resp[w].statuses[1] # 200
               /\ resp[w].body # "json" /\ resp[w].json = NoJson

\* C8 witness: the component exchange failed after a successful one-line
\* exchange, and the request was answered with the error.
C8_Witness ==
    \E w \in Workers :
        /\ pc[w] = "done" /\ Len(calls[w]) = 2
        /\ calls[w][1].cause = "ok" /\ calls[w][2].cause = "read_timeout"
        /\ resp[w].statuses = <<500>>

\* the text after the last comma of addr starts, after any whitespace, with
\* two letters
CommaThenStateCode(addr) ==
    \E k \in 1..Len(addr) :
        /\ addr[k] = "," /\ \A j \in (k + 1)..Len(addr) : addr[j] # ","
        /\ \E f \in (k + 1)..(Len(addr) - 1) :
               /\ \A j \in (k + 1)..(f - 1) : IsSpace(addr[j])
               /\ IsLetter(addr[f]) /\ IsLetter(addr[f + 1])

\* C9: in handle_geocode the component exchange is made exactly when the
\* one-line exchange succeeded with an empty match list and the address has
\* a comma and parses; a successful component answer is the body returned,
\* matches or not; without a component exchange the one-line answer is the
\* body returned (returned: to a client that is there to receive it).
C9_FallbackExactlyWhenEmptyAndParseable ==
    \A w \in Workers :
        path[w].head = "/api/geocode" /\ calls[w] # <<>> =>
            LET first == calls[w][1]
                wanted == /\ first.cause = "ok" /\ first.shape = "empty"
                          /\ CommaThenStateCode(address[w])
                made == Len(calls[w]) = 2
            IN  /\ pc[w] \in {"urlopen2", "done"}
                /\ pc[w] = "urlopen2" => wanted
                /\ pc[w] = "done" => (made <=> wanted)
                /\ pc[w] = "done" /\ resp[w].delivered /\ made
                   /\ calls[w][2].cause = "ok" =>
                       /\ resp[w].statuses = <<200>>
                       /\ resp[w].json =
                              [src |-> "address", shape |-> calls[w][2].shape]
                /\ pc[w] = "done" /\ resp[w].delivered /\ ~made /\ ~Failed(first) =>
                       /\ resp[w].statuses = <<200>>
                       /\ resp[w].json =
                              [src |-> "onelineaddress", shape |-> first.shape]

\* C9 witness: the component answer, itself without matches, was returned.
C9_Witness ==
    \E w \in Workers :
        /\ pc[w] = "done" /\ Len(calls[w]) = 2
        /\ calls[w][2].cause = "ok" /\ calls[w][2].shape = "empty"
        /\ resp[w].delivered
        /\ resp[w].json = [src |-> "address", shape |-> "empty"]

\* C10: an admitted /api/geocode request without address parameter is
\* answered 400 "Missing address parameter", one whose address is longer
\* than MAX_ADDRESS characters 400 "Address too long"; neither makes an
\* upstream call (answered: the client is there to receive it).
C10_MissingOrTooLongAddressIs400 ==
    \A w \in Workers :
        /\ pc[w] = "done" /\ path[w].head = "/api/geocode" /\ allowed[w] = "True"
        /\ resp[w].delivered
        =>  /\ params[w].address = <<>> =>
                   /\ resp[w].statuses = <<400>>
                   /\ resp[w].body = "Missing address parameter"
                   /\ calls[w] = <<>>
            /\ Len(params[w].address) > MAX_ADDRESS =>
                   /\ resp[w].statuses = <<400>>
                   /\ resp[w].body = "Address too long"
                   /\ calls[w] = <<>>

\* the generic messages of lines 251, 263 and 274
GenericMessages ==
    {"Geocoding service error", "Geocoding service unavailable",
     "Internal server error"}

\* in deployed mode the body of an error response is one of the generic
\* messages, never the text the exception carries
DeployedBodyIgnoresMessage ==
    \A w \in Workers :
        PORT_set /\ pc[w] = "done" /\ calls[w] # <<>> /\ Failed(LastCall(w)) =>
            /\ resp[w].body \in GenericMessages
            /\ resp[w].body # LastCall(w).msg

\* C11: in deployed mode the body of the response to a failed upstream
\* exchange does not depend on the text of the exception, and a timeout is
\* answered 502 with the generic "unavailable" message.
C11_DeployedErrorBodyIsGeneric ==
    /\ DeployedBodyIgnoresMessage
    /\ \A w \in Workers :
           /\ PORT_set /\ pc[w] = "done" /\ calls[w] # <<>>
           /\ LastCall(w).cause = "read_timeout"
           => /\ resp[w].statuses = <<502>>
              /\ resp[w].body = "Geocoding service unavailable"

\* the steps of check_rate_limit that run inside the with block
InCheck(w) == pc[w] \in {"rl_prune", "rl_check", "rl_append"}

\* C12: the lock is held only by a worker inside the prune/check/append
\* steps of check_rate_limit, never by one that validates input, talks to
\* the upstream service or writes a response; a check that waits for the
\* lock waits only for another check that is inside those steps.
C12_LockHeldOnlyInsideCheck ==
    /\ \A w \in Workers : rate_limit_lock = w => InCheck(w)
    /\ \A w \in Workers :
           pc[w] = "rl_lock" /\ (\A v \in Workers \ {w} : ~InCheck(v))
               => rate_limit_lock = NoWorker

\* C12 witness: one worker, admitted, is at its upstream call while the
\* other waits to enter the check and finds the lock free.
C12_Witness ==
    \E w1, w2 \in Workers :
        /\ pc[w1] = "urlopen" /\ allowed[w1] = "True"
        /\ pc[w2] = "rl_lock"
        /\ client_ip[w1] = client_ip[w2]
        /\ rate_limit_lock = NoWorker

\* the path that is exactly /health
HealthPath == [head |-> "/health", rest |-> FALSE, len |-> 7]

\* C13: a request whose path is exactly /health is answered 200 in the
\* step that takes it, without a call of check_rate_limit and without a
\* change to any key's timestamp list or to the lock.
C13_HealthBypassesRateLimit ==
    [][\A w \in Workers :
          pc[w] = "idle" /\ pc'[w] # "idle" /\ path'[w] = HealthPath =>
              /\ pc'[w] = "done"
              /\ resp'[w].statuses = <<200>>
              /\ resp'[w].body = "health"
              /\ checks'[w] = 0
              /\ rate_limit_data' = rate_limit_data
              /\ rate_limit_lock' = rate_limit_lock]_vars

\* C13 witness: /health was answered 200 for a client whose window is full
\* of live timestamps.
C13_Witness ==
    \E w \in Workers :
        /\ pc[w] = "done" /\ path[w] = HealthPath
        /\ resp[w].statuses = <<200>> /\ checks[w] = 0
        /\ Within(rate_limit_data[client_ip[w]], clock) = RATE_LIMIT_MAX_REQUESTS

\* the response being written when the client went away was the 200 of a
\* successful exchange, the response to a failed exchange, or the 429
DisconnectedMidResponse(w) ==
    /\ pc[w] = "done" /\ ~resp[w].delivered
    /\ \/ calls[w] # <<>>
       \/ resp[w].statuses[1] = 429

\* C14: when the client disconnects while the 200 success, an
\* upstream-error response or the 429 is written, no second status is
\* started (or logged) for the request and no exception leaves do_GET.
C14_DisconnectIsSwallowed ==
    \A w \in Workers :
        DisconnectedMidResponse(w) =>
            /\ Len(resp[w].statuses) = 1
            /\ resp[w].escaped = "none"

\* the text is a number (of the modelled texts: a run of digits)
IsNumber(text) == text # <<>> /\ \A i \in 1..Len(text) : IsDigit(text[i])

\* an admitted /api/geocode-reverse request was answered and the client
\* received the answer
ReverseAnswered(w) ==
    /\ pc[w] = "done" /\ path[w].head = "/api/geocode-reverse"
    /\ allowed[w] = "True" /\ resp[w].delivered

\* the request was answered 400 with the message, without an upstream call
Refused(w, message) ==
    /\ resp[w].statuses = <<400>>
    /\ resp[w].body = message
    /\ calls[w] = <<>>

C16_RejectionRecordsNothing ==
    [][\A w \in Workers :
          /\ Returns(w) /\ allowed'[w] = "False" =>
                 rate_limit_data'[client_ip[w]] =
                     SelectSeq(before[w],
                               LAMBDA t : t >= current_time[w] - WindowTicks)
          /\ InCheck(w) =>
                 \A ip \in IPs \ {client_ip[w]} :
                     rate_limit_data'[ip] = rate_limit_data[ip]]_vars

\* C16 witness: a check has just been rejected; its key's list is full and
\* another key has a list of its own.
C16_Witness ==
    \E w \in Workers :
        /\ pc[w] = "send_429" /\ allowed[w] = "False"
        /\ Len(rate_limit_data[client_ip[w]]) = RATE_LIMIT_MAX_REQUESTS
        /\ \E ip \in IPs \ {client_ip[w]} : rate_limit_data[ip] # <<>>

\* the least whole number of seconds that is at least x ticks
CeilSeconds(x) == IF x >= 0 THEN (x + Res - 1) \div Res ELSE -((-x) \div Res)

\* C17: a rejection whose clock reading is less than a window past the
\* oldest timestamp left for the key returns
\* ceil(RATE_LIMIT_WINDOW - (now - oldest)) + 1.
C17_RetryAfterIsCeilPlusOne ==
    [][\A w \in Workers :
          Returns(w) /\ allowed'[w] = "False" =>
              LET age == current_time[w] - Oldest(rate_limit_data[client_ip[w]])
              IN  0 <= age /\ age < WindowTicks =>
                      retry_after'[w] = CeilSeconds(WindowTicks - age) + 1]_vars

\* the address has exactly one comma, at position k
OnlyCommaAt(addr, k) ==
    k \in 1..Len(addr) /\ addr[k] = ","
    /\ \A j \in 1..Len(addr) : addr[j] = "," => j = k

\* a two-letter word of rest starts at position i: two letters, with the
\* beginning of rest or whitespace before them and no letter after them
StateCodeAt(rest, i) ==
    /\ i >= 1 /\ i + 1 <= Len(rest)
    /\ IsLetter(rest[i]) /\ IsLetter(rest[i + 1])
    /\ i = 1 \/ IsSpace(rest[i - 1])
    /\ i + 1 = Len(rest) \/ ~IsLetter(rest[i + 2])
    /\ \A j \in 1..(i - 1) : IsLetter(rest[j]) \/ IsSpace(rest[j])

\* what C18 says the parser returns for "street, rest": the state code is
\* the two-letter word of rest that the run of letters and spaces leads up
\* to, the city is that run, the zip is the five digits after the code
ExpectedComponents(addr) ==
    LET k == CHOOSE j \in 1..Len(addr) : OnlyCommaAt(addr, j)
        rest == Strip(SubSeq(addr, k + 1, Len(addr)))
        at == {i \in 1..Len(rest) : StateCodeAt(rest, i)}
        i == CHOOSE n \in at : \A m \in at : m <= n
        p == i + 2 + SpacesFrom(rest, i + 2)
    IN  [street |-> Strip(SubSeq(addr, 1, k - 1)),
         city |-> UpperStr(Strip(SubSeq(rest, 1, i - 1))),
         state |-> UpperStr(SubSeq(rest, i, i + 1)),
         zip |-> IF AllDigits(rest, p, p + 4) THEN SubSeq(rest, p, p + 4)
                 ELSE <<>>]

\* C18: the components sent to the component endpoint for a two-part
\* address are the street before the comma and, of the rest, the state
\* code, the zip after it and the city before it (the city compared
\* without regard to case).
C18_TwoPartAddressComponents ==
    \A w \in Workers :
        \A n \in 1..Len(calls[w]) :
            /\ calls[w][n].endpoint = "address"
            /\ \E k \in 1..Len(address[w]) : OnlyCommaAt(address[w], k)
            =>  LET got == calls[w][n].components
                    want == ExpectedComponents(address[w])
                IN  /\ got.street = want.street
                    /\ got.state = want.state
                    /\ got.zip = want.zip
                    /\ UpperStr(got.city) = want.city

\* C19: when the latest check of a key was rejected at time t with
\* retry_after r, a check of that key whose clock reading is t + r or
\* later, and before which no other check of the key returned, is
\* Admitted.
C19_RetryHintIsSufficient ==
    [][\A w \in Workers :
          /\ Returns(w)
          /\ hint[client_ip[w]] # NoHint
          /\ current_time[w] >= hint[client_ip[w]]
          => allowed'[w] = "True"]_vars

\* C19 witness: a check that follows a rejection and reads the clock at the
\* rejection's deadline has found a full list, has pruned it and is being
\* admitted.
C19_Witness ==
    \E w \in Workers :
        /\ pc[w] = "rl_append"
        /\ hint[client_ip[w]] # NoHint
        /\ current_time[w] >= hint[client_ip[w]]
        /\ Len(before[w]) = RATE_LIMIT_MAX_REQUESTS

\* C20: the step that admits a request on either API route appends one
\* timestamp, the check's clock reading, to the list of the request's
\* client IP, before any parameter is parsed, any upstream call made or
\* any response started; nothing the admitted request does afterwards
\* (a 400, one upstream call, two upstream calls) changes any list.
C20_AdmissionTakesOneSlot ==
    [][\A w \in Workers :
          /\ allowed[w] = "none" /\ allowed'[w] = "True" =>
                 /\ Handler(w) \in {"geocode", "reverse"}
                 /\ rate_limit_data' =
                        [rate_limit_data EXCEPT ![client_ip[w]] =
                             Append(@, current_time[w])]
                 /\ params[w] = NoParams /\ calls[w] = <<>> /\ resp[w] = NoResp
                 /\ params'[w] = NoParams /\ calls'[w] = <<>> /\ resp'[w] = NoResp
          /\ allowed[w] = "True" => rate_limit_data' = rate_limit_data
          /\ calls'[w] # calls[w] /\ calls'[w] # <<>> => allowed[w] = "True"]_vars

\* C20 witness: a request that made both upstream calls has been answered
\* and its client's list holds the one timestamp of its admission.
C20_Witness ==
    \E w \in Workers :
        /\ pc[w] = "done" /\ allowed[w] = "True"
        /\ Len(calls[w]) = 2
        /\ Len(rate_limit_data[client_ip[w]]) = 1

====
